---- MODULE Spec2Model ----
(***************************************************************************)
(* Model of R&DChatbot/multi_rag.py: class MultiRAG, the reconciliation of *)
(* a folder of PDF documents with a persisted FAISS index (index.faiss +   *)
(* index.pkl) and its change-tracking manifest (manifest.json).            *)
(*                                                                         *)
(* One reconcile pass is the constructor MultiRAG.__init__, which calls    *)
(* _build_or_update_vectorstore.  The pass is split at its disk writes:    *)
(*   Start        lines 12-25, 66-98  scan, load manifest, diff, branch    *)
(*                                    (the no-op branch ends here)         *)
(*   LoadDocs     lines 102-113 / 120-134  load, split, embed in memory    *)
(*   SaveIndex    line 114 / 135      save_local                           *)
(*   SaveManifest line 115 / 138-140  _save_manifest                       *)
(* Between passes the environment changes the folder and the files of the  *)
(* index directory; Crash kills the process in the middle of a pass.       *)
(* Once the constructor has returned, Query is a call of                   *)
(* retrieve_relevant_context (lines 144-147) by app.py's chat handler.     *)
(***************************************************************************)
EXTENDS Integers, Sequences, FiniteSets, TLC

\* ------------------------------------------------------------------ bounds
\* File contents are 0..MaxContent; 0 is a file PyPDFLoader cannot parse.
MaxContent == 2
\* An incremental add is explored only while the index stays this short.
MaxIndexLen == 3

\* The file names the folder may hold, in sorted order (sorted(), line 39).
Names == <<"a.pdf", "b.pdf">>

Docs == {Names[i] : i \in 1..Len(Names)}
BadPdf == 0
Contents == 0..MaxContent
\* Modification times (int(st_mtime), line 42).  The code only copies them from
\* the scan into the manifest and never compares them, so two distinct values
\* show every case: recorded mtime equal to the file's, or not.
Mtimes == {1, 2}

\* ----------------------------------------------------------- pure helpers
\* Position of a name in sorted order.
Rank(d) == CHOOSE i \in 1..Len(Names) : Names[i] = d

\* sorted(S) for a set of file names: the ascending sequence of its members.
RECURSIVE Sorted(_)
Sorted(S) ==
  IF S = {} THEN <<>>
  ELSE LET m == CHOOSE x \in S : \A y \in S : Rank(x) <= Rank(y)
       IN  <<m>> \o Sorted(S \ {m})

Range(s) == {s[i] : i \in 1..Len(s)}

\* _hash_file: the MD5 digest of the file's bytes, modelled as a 4-bit digest
\* that is a pure function of the content and distinct for distinct contents
\* of the model.
\* (HashConst: a digest that does not depend on the content.)
HashConst(c) == 3
hash_file(c) == (5 * c + 3) % 16

\* The "hash" key is absent from a manifest entry.
NoHash == -1
\* The "mtime" key is absent from a manifest entry.
NoMtime == -1

\* A manifest entry without its keys: the JSON object {}.
NoRecord == [hash |-> NoHash, mtime |-> NoMtime]

EmptyMap == [d \in {} |-> 0]

\* _scan_pdfs applied to a folder: name -> {"hash", "mtime"}.
scan_pdfs(fld) ==
  [d \in DOMAIN fld |-> [hash |-> hash_file(fld[d].content), mtime |-> fld[d].mtime]]

\* Python values json.loads can return for manifest.json.
PyDict(m) == [kind |-> "dict", map |-> m]
PyList == [kind |-> "list", map |-> EmptyMap]

\* _load_manifest: {} when the file is absent or json.loads raises, otherwise
\* whatever json.loads returns (a dict or, for a JSON array, a list).
load_manifest(file) ==
  IF file.kind = "absent" THEN PyDict(EmptyMap)
  ELSE IF file.kind = "garbage" THEN PyDict(EmptyMap)
  ELSE IF file.kind = "object" THEN PyDict(file.map)
  ELSE PyList

\* json.dumps of a dict, written to manifest.json.
ManifestObject(m) == [kind |-> "object", map |-> m]
AbsentFile == [kind |-> "absent", map |-> EmptyMap]
GarbageFile == [kind |-> "garbage", map |-> EmptyMap]
ListFile == [kind |-> "list", map |-> EmptyMap]

\* _faiss_exists: both files of the index exist.
\* (faiss_exists_either: 'or' in place of 'and'.)
faiss_exists_either(idx, pkl) == idx # "absent" \/ pkl # "absent"
faiss_exists(idx, pkl) == idx # "absent" /\ pkl # "absent"

\* FAISS.load_local succeeds when both files are present and intact.
Loadable(idx, pkl) == idx = "ok" /\ pkl = "ok"

\* PyPDFLoader(path).load() followed by split_documents: content c has c
\* pages, each page short enough to be one chunk; chunks carry their source.
ChunksOf(d, c) == [p \in 1..c |-> [source |-> d, page |-> p, text |-> c]]

\* The chunks of a sequence of files, in file order, pages in page order.
RECURSIVE ChunksOfAll(_, _)
ChunksOfAll(files, fld) ==
  IF files = <<>> THEN <<>>
  ELSE ChunksOf(files[1], fld[files[1]].content) \o ChunksOfAll(Tail(files), fld)

\* A file of the sequence does not parse: loader.load() raises.
\* (Unparseable_skipped: the failure is swallowed and the file skipped.)
Unparseable_skipped(files, fld) == FALSE
Unparseable(files, fld) == \E i \in 1..Len(files) : fld[files[i]].content = BadPdf

\* ------------------------------------------------- the diff and the branch
\* lines 69-70: previous.keys() raises AttributeError unless previous is a
\* dict; line 77: previous[f]["hash"] raises KeyError when the key is absent.
DiffRaises(cur, prev) ==
  \/ prev.kind # "dict"
  \/ \E f \in DOMAIN cur \cap DOMAIN prev.map : prev.map[f].hash = NoHash

\* lines 73-78
new_files(cur, prev) == Sorted(DOMAIN cur \ DOMAIN prev.map)
removed_files(cur, prev) == Sorted(DOMAIN prev.map \ DOMAIN cur)
\* (modified_files_record: the whole record, mtime included, is compared.)
modified_files_record(cur, prev) ==
  Sorted({f \in DOMAIN cur \cap DOMAIN prev.map : cur[f] # prev.map[f]})
modified_files(cur, prev) ==
  Sorted({f \in DOMAIN cur \cap DOMAIN prev.map : cur[f].hash # prev.map[f].hash})

\* lines 81-86
need_full_rebuild(cur, prev, idx, pkl) ==
  \/ ~faiss_exists(idx, pkl)
  \/ Len(modified_files(cur, prev)) > 0
  \/ Len(removed_files(cur, prev)) > 0
  \/ (prev.map = EmptyMap /\ Cardinality(DOMAIN cur) > 0 /\ ~faiss_exists(idx, pkl))

\* lines 88-98: which of the three branches the pass takes.
BranchOf(cur, prev, idx, pkl) ==
  IF need_full_rebuild(cur, prev, idx, pkl) THEN "full"
  ELSE IF Len(new_files(cur, prev)) > 0 THEN "incremental"
  ELSE "noop"

\* lines 138-139: prev = self._load_manifest(); prev.update(new entries).
\* (MergeManifest_rescan: the whole scan is saved instead of the merge.)
MergeManifest_rescan(prev, newFiles, manifestNow) == manifestNow
MergeManifest(prev, newFiles, manifestNow) ==
  [d \in DOMAIN prev.map \cup Range(newFiles) |->
     IF d \in Range(newFiles) THEN manifestNow[d] ELSE prev.map[d]]

\* ------------------------------------------------------------------ search
\* The queries the chat handler passes on.
Queries == {1, 2}

\* retrieve_relevant_context(self, query, k=20), line 144.
DefaultK == 20

\* The separator of "\n".join, line 147.
NewLine == 0

\* page_content of a chunk: the text of page p of content c.
PageContent(ch) == <<ch.text, ch.page>>

\* The embedding function, on a chunk and on a query: a point of the plane.
\* similarity_search compares them by squared L2 distance.
Distance(q, ch) == (q - ch.text) * (q - ch.text) + (1 - ch.page) * (1 - ch.page)

\* The k nearest of the chunks at the positions in rem, nearest first, equal
\* distances in index order.
RECURSIVE Nearest(_, _, _, _)
Nearest(chunks, rem, q, k) ==
  IF k = 0 \/ rem = {} THEN <<>>
  ELSE LET i == CHOOSE x \in rem : \A y \in rem :
                  \/ Distance(q, chunks[x]) < Distance(q, chunks[y])
                  \/ Distance(q, chunks[x]) = Distance(q, chunks[y]) /\ x <= y
       IN  <<chunks[i]>> \o Nearest(chunks, rem \ {i}, q, k - 1)

\* vectorstore.similarity_search(query, k=k), line 146.
\* (similarity_search_unranked: the first k chunks in index order.)
similarity_search_unranked(chunks, q, k) ==
  SubSeq(chunks, 1, IF k < Len(chunks) THEN k ELSE Len(chunks))
similarity_search(chunks, q, k) == Nearest(chunks, 1..Len(chunks), q, k)

\* "\n".join(doc.page_content for doc in docs), line 147.
RECURSIVE Join(_)
Join(docs) ==
  IF docs = <<>> THEN <<>>
  ELSE IF Len(docs) = 1 THEN PageContent(docs[1])
  ELSE PageContent(docs[1]) \o <<NewLine>> \o Join(Tail(docs))

\* retrieve_relevant_context, lines 144-147, on the chunks of self.vectorstore.
retrieve_relevant_context(chunks, query, k) == Join(similarity_search(chunks, query, k))

\* ------------------------------------------------------------------- state
VARIABLES
  folder,        \* docs/*.pdf: name -> [content, mtime]
  manifestFile,  \* manifest.json: [kind, map]
  indexFile,     \* index.faiss: "absent", "ok" or "corrupt"
  storeFile,     \* index.pkl:   "absent", "ok" or "corrupt"
  diskChunks,    \* the chunks the two index files hold together
  pc,            \* "idle", "decided", "embedded", "index_saved", "done", "failed"
  vectorstore,   \* self.vectorstore: [set, chunks]
  current,       \* local of the pass: _scan_pdfs()
  previous,      \* local of the pass: _load_manifest()
  branch,        \* "none", "full", "incremental", "noop"
  err,           \* the exception that ended the pass, "none" if none
  loaded,        \* the files the pass handed to PyPDFLoader, in order
  writes,        \* the persisted artifacts the pass has written
  pre,           \* the files of the index directory as the pass found them
  last,          \* the pass completed or killed just before this one, nothing
                 \* changed since
  answer         \* the last call of retrieve_relevant_context and its result

vars == <<folder, manifestFile, indexFile, storeFile, diskChunks, pc, vectorstore,
          current, previous, branch, err, loaded, writes, pre, last, answer>>

disk == <<manifestFile, indexFile, storeFile, diskChunks>>

None == [set |-> FALSE, chunks |-> <<>>]
Store(chunks) == [set |-> TRUE, chunks |-> chunks]
NoPre == [manifest |-> AbsentFile, idx |-> "absent", pkl |-> "absent", chunks |-> <<>>]
NoLast == [done |-> FALSE, killed |-> FALSE, branch |-> "none", chunks |-> <<>>]
NoAnswer == [asked |-> FALSE, query |-> 0, context |-> <<>>]

FileRecs == [content : Contents, mtime : Mtimes]

\* No process is running: nothing is held in memory.
Memoryless ==
  /\ pc' = "idle"
  /\ vectorstore' = None
  /\ current' = EmptyMap
  /\ previous' = PyDict(EmptyMap)
  /\ branch' = "none"
  /\ err' = "none"
  /\ loaded' = <<>>
  /\ writes' = {}
  /\ pre' = NoPre
  /\ answer' = NoAnswer

NoProcess ==
  /\ Memoryless
  /\ last' = NoLast

Init ==
  /\ folder = EmptyMap
  /\ manifestFile = AbsentFile
  /\ indexFile = "absent"
  /\ storeFile = "absent"
  /\ diskChunks = <<>>
  /\ pc = "idle"
  /\ vectorstore = None
  /\ current = EmptyMap
  /\ previous = PyDict(EmptyMap)
  /\ branch = "none"
  /\ err = "none"
  /\ loaded = <<>>
  /\ writes = {}
  /\ pre = NoPre
  /\ last = NoLast
  /\ answer = NoAnswer

\* ---------------------------------------------------------- reconcile pass
\* A new process can start when none runs, or in place of one that completed
\* its pass (a restart).
Resting == pc \in {"idle", "done"}

\* The pass ends with an exception: nothing more is written.
Raise(e) ==
  /\ pc' = "failed"
  /\ err' = e

\* __init__ (lines 12-25) up to the branch of _build_or_update_vectorstore
\* (lines 66-98).  The no-op branch loads the index and the pass is over.
Start ==
  /\ Resting
  /\ LET cur == scan_pdfs(folder)
         prev == load_manifest(manifestFile)
     IN  /\ current' = cur
         /\ previous' = prev
         /\ loaded' = <<>>
         /\ writes' = {}
         /\ pre' = [manifest |-> manifestFile, idx |-> indexFile, pkl |-> storeFile,
                     chunks |-> diskChunks]
         /\ last' = IF pc = "done"
                     THEN [done |-> TRUE, killed |-> FALSE, branch |-> branch,
                           chunks |-> vectorstore.chunks]
                     ELSE last
         /\ answer' = NoAnswer
         /\ UNCHANGED <<folder, disk>>
         /\ IF DiffRaises(cur, prev)
            THEN /\ Raise("manifest")
                 /\ branch' = "none"
                 /\ vectorstore' = None
            ELSE LET b == BranchOf(cur, prev, indexFile, storeFile)
                 IN  /\ branch' = b
                     /\ IF b # "noop"
                        THEN /\ pc' = "decided"
                             /\ err' = "none"
                             /\ vectorstore' = None
                        ELSE IF Loadable(indexFile, storeFile)
                        THEN /\ pc' = "done"
                             /\ err' = "none"
                             /\ vectorstore' = Store(diskChunks)
                        ELSE /\ Raise("index_load")
                             /\ vectorstore' = None

\* _build_full_index lines 102-113: load every file of the manifest in sorted
\* order, split, FAISS.from_documents.  from_documents raises IndexError on an
\* empty list of chunks (it reads the dimension from the first embedding).
build_full_index_load ==
  LET files == Sorted(DOMAIN current)
      chunks == ChunksOfAll(files, folder)
  IN  /\ loaded' = files
      /\ IF Unparseable(files, folder)
         THEN Raise("parse") /\ UNCHANGED vectorstore
         ELSE IF chunks = <<>>
         THEN Raise("empty") /\ UNCHANGED vectorstore
         ELSE /\ vectorstore' = Store(chunks)
              /\ pc' = "embedded"
              /\ UNCHANGED err

\* The files _incremental_add hands to PyPDFLoader (lines 125-128): its
\* argument new_files.
\* (incremental_add_files_all: every file of the scan is loaded again.)
incremental_add_files_all == Sorted(DOMAIN current)
incremental_add_files == new_files(current, previous)

\* _incremental_add lines 120-134: load the persisted index, load and split
\* the new files only, add_documents.
incremental_add_load ==
  LET files == incremental_add_files
      chunks == ChunksOfAll(files, folder)
  IN  IF ~Loadable(indexFile, storeFile)
      THEN Raise("index_load") /\ UNCHANGED <<vectorstore, loaded>>
      ELSE /\ loaded' = files
           /\ IF Unparseable(files, folder)
              THEN Raise("parse") /\ vectorstore' = Store(diskChunks)
              ELSE /\ Len(diskChunks) + Len(chunks) <= MaxIndexLen
                   /\ vectorstore' = Store(diskChunks \o chunks)
                   /\ pc' = "embedded"
                   /\ UNCHANGED err

LoadDocs ==
  /\ pc = "decided"
  /\ IF branch = "full" THEN build_full_index_load ELSE incremental_add_load
  /\ UNCHANGED <<folder, disk, current, previous, branch, writes, pre, last, answer>>

\* save_local (line 114 / line 135): both index files are rewritten.
SaveIndex ==
  /\ pc = "embedded"
  /\ indexFile' = "ok"
  /\ storeFile' = "ok"
  /\ diskChunks' = vectorstore.chunks
  /\ writes' = writes \cup {"index"}
  /\ pc' = "index_saved"
  /\ UNCHANGED <<folder, manifestFile, vectorstore, current, previous, branch, err,
                 loaded, pre, last, answer>>

\* The manifest each branch writes: line 115 saves the scan; lines 138-140
\* re-read the file and add the new files' records to it.
\* (build_full_index_manifest_stale: the manifest read at the start is saved;
\* incremental_add_manifest_newonly: the merge with the file on disk is lost.)
build_full_index_manifest_stale == previous.map
build_full_index_manifest == current
incremental_add_manifest_newonly ==
  [d \in Range(new_files(current, previous)) |-> current[d]]
incremental_add_manifest ==
  MergeManifest(load_manifest(manifestFile), new_files(current, previous), current)

\* (SaveManifest_early: the manifest is saved before save_local.)
SaveManifest_early ==
  /\ pc = "embedded"
  /\ "manifest" \notin writes
  /\ manifestFile' = ManifestObject(IF branch = "full" THEN build_full_index_manifest
                                    ELSE incremental_add_manifest)
  /\ writes' = writes \cup {"manifest"}
  /\ UNCHANGED <<folder, indexFile, storeFile, diskChunks, pc, vectorstore, current,
                 previous, branch, err, loaded, pre, last, answer>>

SaveManifest ==
  /\ pc = "index_saved"
  /\ manifestFile' = ManifestObject(IF branch = "full" THEN build_full_index_manifest
                                    ELSE incremental_add_manifest)
  /\ writes' = writes \cup {"manifest"}
  /\ pc' = "done"
  /\ UNCHANGED <<folder, indexFile, storeFile, diskChunks, vectorstore, current,
                 previous, branch, err, loaded, pre, last, answer>>

\* The process ends after its pass (the server is stopped, or the constructor
\* raised).
Stop ==
  /\ pc \in {"done", "failed"}
  /\ NoProcess
  /\ UNCHANGED <<folder, disk>>

\* app.py: rag = MultiRAG(...) is bound at import (line 30), before the server
\* runs; chat() then calls rag.retrieve_relevant_context(user_input), line 154.
\* (QueryReady_early: a call on an instance whose constructor has not returned.)
QueryReady_early == pc \in {"decided", "embedded", "index_saved", "done"}
QueryReady == pc = "done"

Query ==
  /\ QueryReady
  /\ \E q \in Queries :
       answer' = [asked |-> TRUE, query |-> q,
                  context |-> retrieve_relevant_context(vectorstore.chunks, q, DefaultK)]
  /\ UNCHANGED <<folder, disk, pc, vectorstore, current, previous, branch, err, loaded,
                 writes, pre, last>>

\* The process is killed in the middle of a pass.
Crash ==
  /\ pc \in {"decided", "embedded", "index_saved"}
  /\ Memoryless
  /\ last' = IF pc = "index_saved"
             THEN [done |-> FALSE, killed |-> TRUE, branch |-> branch, chunks |-> <<>>]
             ELSE NoLast
  /\ UNCHANGED <<folder, disk>>

\* ------------------------------------------------------------- environment
\* While no process runs the operator changes the folder and may touch
\* the files of the index directory.
AddDoc ==
  /\ pc = "idle"
  /\ \E d \in Docs \ DOMAIN folder, r \in FileRecs :
       folder' = [x \in DOMAIN folder \cup {d} |-> IF x = d THEN r ELSE folder[x]]
  /\ NoProcess
  /\ UNCHANGED disk

RemoveDoc ==
  /\ pc = "idle"
  /\ \E d \in DOMAIN folder : folder' = [x \in DOMAIN folder \ {d} |-> folder[x]]
  /\ NoProcess
  /\ UNCHANGED disk

ModifyDoc ==
  /\ pc = "idle"
  /\ \E d \in DOMAIN folder, r \in FileRecs :
       /\ r.content # folder[d].content
       /\ folder' = [folder EXCEPT ![d] = r]
  /\ NoProcess
  /\ UNCHANGED disk

TouchDoc ==
  /\ pc = "idle"
  /\ \E d \in DOMAIN folder, t \in Mtimes :
       /\ t # folder[d].mtime
       /\ folder' = [folder EXCEPT ![d].mtime = t]
  /\ NoProcess
  /\ UNCHANGED disk

DeleteManifest ==
  /\ pc = "idle"
  /\ manifestFile # AbsentFile
  /\ manifestFile' = AbsentFile
  /\ NoProcess
  /\ UNCHANGED <<folder, indexFile, storeFile, diskChunks>>

\* manifest.json is overwritten with text that is not JSON, or with a JSON
\* array.
CorruptManifest ==
  /\ pc = "idle"
  /\ \E f \in {GarbageFile, ListFile} :
       /\ manifestFile # f
       /\ manifestFile' = f
  /\ NoProcess
  /\ UNCHANGED <<folder, indexFile, storeFile, diskChunks>>

\* manifest.json is edited by hand: every record becomes the empty object {}.
StripHash ==
  /\ pc = "idle"
  /\ manifestFile.kind = "object"
  /\ \E d \in DOMAIN manifestFile.map : manifestFile.map[d].hash # NoHash
  /\ manifestFile' = ManifestObject([d \in DOMAIN manifestFile.map |-> NoRecord])
  /\ NoProcess
  /\ UNCHANGED <<folder, indexFile, storeFile, diskChunks>>

DeleteIndexFiles ==
  /\ pc = "idle"
  /\ \E which \in {"faiss", "pkl", "both"} :
       /\ which # "pkl" => indexFile # "absent"
       /\ which # "faiss" => storeFile # "absent"
       /\ indexFile' = IF which = "pkl" THEN indexFile ELSE "absent"
       /\ storeFile' = IF which = "faiss" THEN storeFile ELSE "absent"
  /\ diskChunks' = <<>>
  /\ NoProcess
  /\ UNCHANGED <<folder, manifestFile>>

\* The index files are present but FAISS.load_local cannot read them.
CorruptIndex ==
  /\ pc = "idle"
  /\ Loadable(indexFile, storeFile)
  /\ indexFile' = "corrupt"
  /\ diskChunks' = <<>>
  /\ NoProcess
  /\ UNCHANGED <<folder, manifestFile, storeFile>>

Next ==
  \/ Start
  \/ LoadDocs
  \/ SaveIndex
  \/ SaveManifest
  \/ Query
  \/ Stop
  \/ Crash
  \/ AddDoc
  \/ RemoveDoc
  \/ ModifyDoc
  \/ TouchDoc
  \/ DeleteManifest
  \/ CorruptManifest
  \/ StripHash
  \/ DeleteIndexFiles
  \/ CorruptIndex

Spec == Init /\ [][Next]_vars

\* The program run from an empty index directory by an operator who only
\* adds, removes and edits documents: every pass runs to its end (return or
\* exception), nothing but the program writes the index directory.
NextClean ==
  \/ Start
  \/ LoadDocs
  \/ SaveIndex
  \/ SaveManifest
  \/ Query
  \/ Stop
  \/ AddDoc
  \/ RemoveDoc
  \/ ModifyDoc
  \/ TouchDoc

SpecClean == Init /\ [][NextClean]_vars

\* ------------------------------------------------------------------ claims
\* The names of the documents that have a chunk in an index.
IndexDocs(chunks) == {chunks[i].source : i \in 1..Len(chunks)}

\* The manifest on disk as the program reads it.
ManifestOnDisk == load_manifest(manifestFile)

\* The fingerprint of a file of the folder, from the file itself.
Fingerprint(d) == [hash |-> hash_file(folder[d].content), mtime |-> folder[d].mtime]

\* A chunk sequence is the start of another.
IsPrefix(s, t) == Len(s) <= Len(t) /\ \A i \in 1..Len(s) : s[i] = t[i]

\* The pass has returned to its caller without an exception.
Returned == pc = "done"

\* C1: after reconcile returns, the documents that have chunks in the returned
\* index and in the persisted index are exactly the documents of the folder,
\* whatever persisted state the pass started from.
C1_IndexDocsAreFolderDocs ==
  Returned =>
    /\ IndexDocs(vectorstore.chunks) = DOMAIN folder
    /\ IndexDocs(diskChunks) = DOMAIN folder

\* C2: after a pass that completes without error, the keys of the manifest on
\* disk are the names of the PDF files of the folder and every recorded hash
\* is the hash of the file's current content.
C2_ManifestKeysAndHashes ==
  Returned =>
    /\ ManifestOnDisk.kind = "dict"
    /\ DOMAIN ManifestOnDisk.map = DOMAIN folder
    /\ \A d \in DOMAIN folder :
         ManifestOnDisk.map[d].hash = hash_file(folder[d].content)

C2_Witness ==
  /\ Returned
  /\ branch = "incremental"
  /\ DOMAIN folder = Docs
  /\ manifestFile.kind = "object"
  /\ DOMAIN pre.manifest.map # {}

\* C3 as stated: after reconcile returns, the manifest on disk equals the scan
\* of the pass, key for key and record for record (hash and mtime), in each of
\* the three branches.
C3_ManifestEqualsCurrent ==
  Returned =>
    /\ ManifestOnDisk.kind = "dict"
    /\ DOMAIN ManifestOnDisk.map = DOMAIN folder
    /\ \A d \in DOMAIN folder : ManifestOnDisk.map[d] = Fingerprint(d)

\* The manifest the pass found, as the program reads it.
ManifestBefore == load_manifest(pre.manifest)

\* C3 amended: after reconcile returns, the manifest on disk has the keys of
\* the scan and for every key the hash of the scan; the mtime is the scanned
\* one in the records the pass wrote (all of them in a full rebuild, those
\* of the new files in an incremental add), and every other record (the old
\* ones in an incremental add, all of them in a no-op) is the record found on
\* disk, with the mtime recorded earlier.
C3_ManifestMatchesCurrentUpToMtime ==
  Returned =>
    /\ ManifestOnDisk.kind = "dict"
    /\ DOMAIN ManifestOnDisk.map = DOMAIN folder
    /\ \A d \in DOMAIN folder : ManifestOnDisk.map[d].hash = Fingerprint(d).hash
    /\ branch = "full" =>
         \A d \in DOMAIN folder : ManifestOnDisk.map[d] = Fingerprint(d)
    /\ branch = "incremental" =>
         \A d \in DOMAIN folder :
           ManifestOnDisk.map[d] = IF d \in DOMAIN ManifestBefore.map
                                   THEN ManifestBefore.map[d]
                                   ELSE Fingerprint(d)
    /\ branch = "noop" => manifestFile = pre.manifest

\* A no-op pass over a file whose mtime is not the recorded one.
C3_Witness ==
  /\ Returned
  /\ branch = "noop"
  /\ \E d \in DOMAIN folder : ManifestOnDisk.map[d].mtime # folder[d].mtime

\* The diff of section 4.3, from the folder and the manifest the pass found.
NamesCurrent == DOMAIN folder
NamesPrevious == DOMAIN ManifestBefore.map
NewDocs == NamesCurrent \ NamesPrevious
RemovedDocs == NamesPrevious \ NamesCurrent
ModifiedDocs ==
  {d \in NamesCurrent \cap NamesPrevious :
     hash_file(folder[d].content) # ManifestBefore.map[d].hash}
IndexMissingOrIncomplete == pre.idx = "absent" \/ pre.pkl = "absent"

\* The pass has chosen its branch.
Decided == pc # "idle" /\ err # "manifest"

C5_CorruptManifestForcesRebuild ==
  (pc # "idle" /\ pre.manifest.kind = "garbage" /\ DOMAIN folder # {}) =>
    /\ previous = PyDict(EmptyMap)
    /\ branch = "full"

\* C6: loading the manifest never makes the pass fail: absent, not JSON, or
\* JSON of another shape (an array, records without a hash), it counts as no
\* prior manifest and the pass goes on without raising.
WellFormed(file) ==
  /\ file.kind = "object"
  /\ \A d \in DOMAIN file.map : file.map[d].hash # NoHash

C6_ManifestNeverFailsThePass ==
  (pc # "idle" /\ ~WellFormed(pre.manifest)) =>
    /\ err # "manifest"
    /\ previous = PyDict(EmptyMap)

\* C7: a pass that follows a completed pass with nothing changed in between
\* takes the no-op branch, writes neither the manifest nor the index files and
\* holds an index with the content the first pass produced, whichever branch
\* the first pass took.
C7_SecondPassIsNoop ==
  last.done =>
    /\ pc = "done"
    /\ branch = "noop"
    /\ writes = {}
    /\ manifestFile = pre.manifest
    /\ <<indexFile, storeFile, diskChunks>> = <<pre.idx, pre.pkl, pre.chunks>>
    /\ vectorstore = Store(last.chunks)

\* The second pass after an incremental add over two documents.
C7_Witness ==
  /\ last.done
  /\ last.branch = "incremental"
  /\ pc = "done"
  /\ Len(vectorstore.chunks) >= 2

\* The pass has embedded its documents in memory.
Embedded == pc \in {"embedded", "index_saved", "done"}

\* C8: an incremental add loads, chunks and embeds exactly the new documents;
\* the chunks the index held before the pass are still its first chunks, in
\* the same order; the manifest records of the documents recorded before are
\* unchanged and the records added are exactly those of the new documents.
C8_IncrementalAddFrame ==
  (branch = "incremental" /\ Embedded) =>
    /\ loaded = Sorted(NewDocs)
    /\ vectorstore.chunks = pre.chunks \o ChunksOfAll(Sorted(NewDocs), folder)
    /\ IsPrefix(pre.chunks, vectorstore.chunks)
    /\ pc \in {"index_saved", "done"} => diskChunks = vectorstore.chunks
    /\ pc = "done" =>
         /\ DOMAIN ManifestOnDisk.map = NamesPrevious \cup NewDocs
         /\ \A d \in NamesPrevious : ManifestOnDisk.map[d] = ManifestBefore.map[d]
         /\ \A d \in NewDocs : ManifestOnDisk.map[d] = Fingerprint(d)

\* An incremental add of one document to an index of another whose recorded
\* mtime is no longer the file's.
C8_Witness ==
  /\ branch = "incremental"
  /\ pc = "done"
  /\ pre.chunks # <<>>
  /\ NewDocs # {}
  /\ \E d \in NamesPrevious : ManifestBefore.map[d].mtime # folder[d].mtime

\* The pass is over, and not by a document that does not parse or by a
\* manifest the diff cannot read.
Ended == pc \in {"done", "failed"} /\ err \notin {"parse", "manifest"}

\* A document the pass found recorded in the manifest and present in the index.
Indexed(d) == d \in NamesPrevious /\ d \in IndexDocs(pre.chunks)

\* C9: deleting an indexed document d and reconciling leaves a manifest on
\* disk without d and an index without a chunk of d, also when d was the only
\* document.
C9_RemovalRebuilds ==
  Ended =>
    \A d \in Docs :
      (Indexed(d) /\ d \notin DOMAIN folder) =>
        /\ d \notin DOMAIN ManifestOnDisk.map
        /\ d \notin IndexDocs(diskChunks)

\* Document A was indexed with content c, which is not its content now.
Changed(A, c) ==
  /\ A \in DOMAIN folder
  /\ c # folder[A].content
  /\ A \in NamesPrevious
  /\ ManifestBefore.map[A].hash = hash_file(c)
  /\ \E i \in 1..Len(pre.chunks) : pre.chunks[i].source = A /\ pre.chunks[i].text = c

\* C10: changing the content of an indexed document A and reconciling takes
\* the full rebuild; after it the index has no chunk of A's old content,
\* has the chunks of the new content, and the hash the manifest records for
\* A is the hash of the new content.
C10_ModificationRebuilds ==
  \A A \in Docs, c \in Contents :
    (Decided /\ Changed(A, c)) =>
      /\ branch = "full"
      /\ pc = "done" =>
           /\ \A i \in 1..Len(diskChunks) :
                diskChunks[i].source = A => diskChunks[i].text = folder[A].content
           /\ \A p \in 1..folder[A].content :
                \E i \in 1..Len(diskChunks) :
                  diskChunks[i] = [source |-> A, page |-> p, text |-> folder[A].content]
           /\ vectorstore.chunks = diskChunks
           /\ ManifestOnDisk.map[A].hash = hash_file(folder[A].content)

C10_Witness ==
  /\ pc = "done"
  /\ \E c \in Contents : Changed("a.pdf", c)
  /\ "b.pdf" \in DOMAIN folder

\* C11: when the scan finds no document and no index exists, the pass does not
\* crash: it completes with an empty index that can be queried, and
\* retrieve_relevant_context returns the empty string for every query.
C11_EmptyFolderCompletes ==
  (/\ pc \in {"embedded", "index_saved", "done", "failed"}
   /\ err # "manifest"
   /\ DOMAIN folder = {}
   /\ pre.idx = "absent" /\ pre.pkl = "absent") =>
    /\ pc # "failed"
    /\ vectorstore = Store(<<>>)
    /\ \A q \in Queries : retrieve_relevant_context(vectorstore.chunks, q, DefaultK) = <<>>

\* C12: an index that is missing, incomplete (one of its two files) or corrupt
\* (both files, not loadable) gives a full rebuild from the current documents,
\* never a failed pass or a load of the damaged index, whatever the manifest
\* says.
C12_DamagedIndexIsRebuilt ==
  (Decided /\ ~Loadable(pre.idx, pre.pkl)) =>
    /\ branch = "full"
    /\ err # "index_load"

\* The files the branch of the pass hands to PyPDFLoader.
ToLoad ==
  IF branch = "full" THEN DOMAIN folder
  ELSE IF branch = "incremental" THEN NewDocs
  ELSE {}

\* One of them does not parse.
ParseFails == pc # "idle" /\ \E d \in ToLoad : folder[d].content = BadPdf

\* C13: a document that does not parse is fatal to a full rebuild or an
\* incremental add: the pass ends with the exception, it never completes with
\* the document skipped, and no index of that pass is served to a query.
C13_ParseFailureIsFatal ==
  ParseFails =>
    /\ pc \in {"decided", "failed"}
    /\ pc = "failed" => err \in {"parse", "index_load"}
    /\ (pc = "failed" /\ loaded # <<>>) => err = "parse"
    /\ ~answer.asked

\* An incremental add that had loaded the index when a new file failed to parse.
C13_Witness ==
  /\ ParseFails
  /\ pc = "failed"
  /\ err = "parse"
  /\ branch = "incremental"
  /\ vectorstore.set
  /\ vectorstore.chunks # <<>>

\* The context returned by a call, read back: the number of texts joined, the
\* i-th text, and the distance of a text from the query.
ContextCount == IF answer.context = <<>> THEN 0 ELSE (Len(answer.context) + 1) \div 3
ContextText(i) == <<answer.context[3 * i - 2], answer.context[3 * i - 1]>>
TextDistance(q, t) == (q - t[1]) * (q - t[1]) + (1 - t[2]) * (1 - t[2])
CountInContext(t) == Cardinality({i \in 1..ContextCount : ContextText(i) = t})
CountInIndex(t) ==
  Cardinality({i \in 1..Len(vectorstore.chunks) : PageContent(vectorstore.chunks[i]) = t})
TextsOfIndex == {PageContent(vectorstore.chunks[i]) : i \in 1..Len(vectorstore.chunks)}
TextsOfContext == {ContextText(i) : i \in 1..ContextCount}

Persisted(file, d) ==
  \E i \in 1..Len(diskChunks) :
    /\ diskChunks[i].source = d
    /\ hash_file(diskChunks[i].text) = load_manifest(file).map[d].hash

\* The records a write of the manifest adds or changes.
Recorded(old, new) ==
  {d \in DOMAIN load_manifest(new).map :
     \/ d \notin DOMAIN load_manifest(old).map
     \/ load_manifest(new).map[d] # load_manifest(old).map[d]}

\* C15: in a pass the manifest is saved only after the index save has
\* completed.  At every point of the pass before that the manifest is the one
\* the pass found, and every record the save adds or changes is of a document
\* whose chunks the index on disk already holds.
C15_ManifestSavedAfterIndex ==
  /\ [](( pc # "idle" /\ "manifest" \notin writes) => manifestFile = pre.manifest)
  /\ [](("manifest" \in writes) => ("index" \in writes /\ pc = "done"))
  /\ [][(pc # "idle" /\ manifestFile' # manifestFile) =>
          /\ pc = "index_saved"
          /\ "index" \in writes
          /\ diskChunks' = diskChunks
          /\ \A d \in Recorded(manifestFile, manifestFile') : Persisted(manifestFile', d)]_vars

\* The crash point of an incremental add between the two saves: the index on
\* disk holds the new document, the manifest does not record it yet.
C15_Witness ==
  /\ pc = "index_saved"
  /\ branch = "incremental"
  /\ NewDocs # {}
  /\ NewDocs \subseteq IndexDocs(diskChunks)
  /\ NewDocs \cap DOMAIN ManifestOnDisk.map = {}
  /\ NamesPrevious # {}

\* Since the manifest was written no file was added or removed and no file's
\* bytes changed, and both index files are there.
OnlyMtimesMayDiffer ==
  /\ WellFormed(pre.manifest)
  /\ ~IndexMissingOrIncomplete
  /\ NamesPrevious = NamesCurrent
  /\ \A d \in NamesCurrent : ManifestBefore.map[d].hash = hash_file(folder[d].content)

\* C16: change detection looks at the content hash only: when modification
\* times changed but no bytes did and no document was added or removed, the
\* pass takes the no-op branch.
C16_MtimeChangeIsNoop ==
  (pc # "idle" /\ OnlyMtimesMayDiffer) =>
    /\ err # "manifest"
    /\ branch = "noop"
    /\ writes = {}
    /\ loaded = <<>>

\* Every file of a folder of two was touched since the manifest was written.
C16_Witness ==
  /\ pc = "done"
  /\ branch = "noop"
  /\ OnlyMtimesMayDiffer
  /\ NamesCurrent = Docs
  /\ \A d \in Docs : ManifestBefore.map[d].mtime # folder[d].mtime

\* C17: reconcile and serve are serialized.  A query is answered only by an
\* instance whose constructor has run its pass to completion; while queries
\* are being answered no step writes the manifest or the index files, and the
\* index in memory stays as it is until the process ends.
C17_ServeAfterReconcile ==
  /\ [](answer.asked => (pc = "done" /\ vectorstore.set))
  /\ [][(answer'.asked /\ answer' # answer) =>
          (pc = "done" /\ UNCHANGED <<disk, vectorstore, pc>>)]_vars
  /\ [][answer.asked =>
          (/\ disk' = disk
           /\ answer'.asked => vectorstore' = vectorstore)]_vars

\* Two queries answered one after the other by the instance of a full rebuild.
C17_Witness ==
  /\ answer.asked
  /\ answer.query = 2
  /\ branch = "full"
  /\ writes = {"index", "manifest"}
  /\ Len(vectorstore.chunks) >= 2

\* C18: a pass that aborts because a document cannot be parsed changes
\* nothing on disk: the manifest file and the index files are as they were
\* when the pass began, and no write was made.
C18_ParseFailureLeavesDiskAlone ==
  ParseFails =>
    /\ manifestFile = pre.manifest
    /\ indexFile = pre.idx
    /\ storeFile = pre.pkl
    /\ diskChunks = pre.chunks
    /\ writes = {}

\* A rebuild over an existing index and manifest that dies on a bad document.
C18_Witness ==
  /\ pc = "failed"
  /\ err = "parse"
  /\ branch = "full"
  /\ ParseFails
  /\ pre.chunks # <<>>
  /\ WellFormed(pre.manifest)
  /\ NamesPrevious # {}

\* The chunks of document d in the index on disk, in index order.
ChunksOnDisk(d) == SelectSeq(diskChunks, LAMBDA ch : ch.source = d)

\* The process before this one was killed between the index save and the
\* manifest save of an incremental add, and the folder is as it was then.
KilledAfterIndexSave == last.killed /\ last.branch = "incremental"

\* C19: when a pass is killed after the index save and before the manifest
\* save of an incremental add, the next pass that completes, the folder being
\* the same, leaves an index holding the chunks of each current document
\* exactly once and a manifest matching the folder.
C19_CrashRecovery ==
  (pc = "done" /\ KilledAfterIndexSave) =>
    /\ \A d \in DOMAIN folder :
         ChunksOnDisk(d) = ChunksOf(d, folder[d].content)
    /\ IndexDocs(diskChunks) \subseteq DOMAIN folder
    /\ DOMAIN ManifestOnDisk.map = DOMAIN folder
    /\ \A d \in DOMAIN folder :
         ManifestOnDisk.map[d].hash = hash_file(folder[d].content)

\* No pass is between its two writes.
AtRest == pc \in {"idle", "done", "failed"}

\* The index on disk holds the chunks of the version of d the manifest
\* records, once, in page order.
RecordedOnce(d) ==
  \E c \in Contents :
    /\ hash_file(c) = ManifestOnDisk.map[d].hash
    /\ ChunksOnDisk(d) = ChunksOf(d, c)

\* C20: from an empty index directory, after any sequence of passes that ran
\* to their end, with documents added, modified and removed in between, the
\* index on disk holds the chunks of each document the manifest records
\* exactly once and the chunks of no other document.
C20_NoDuplicateEmbedding ==
  AtRest =>
    /\ \A d \in DOMAIN ManifestOnDisk.map : RecordedOnce(d)
    /\ IndexDocs(diskChunks) \subseteq DOMAIN ManifestOnDisk.map
    /\ Len(diskChunks) > 0 => Loadable(indexFile, storeFile)

\* An incremental add on top of an earlier pass has filled the index.
C20_Witness ==
  /\ pc = "done"
  /\ branch = "incremental"
  /\ pre.chunks # <<>>
  /\ DOMAIN ManifestOnDisk.map = Docs
  /\ Len(diskChunks) = MaxIndexLen

====
